---- MODULE Spec2Model ----
(***************************************************************************)
(* permuteseq.c: keyed permutation of the integers of [minval, maxval] by  *)
(* a balanced Feistel network with cycle walking, and its four SQL entry   *)
(* points.                                                                 *)
(*                                                                         *)
(* Integer widths are scaled: the C code's uint32 / int (32 bits) is       *)
(* HalfBits bits wide here and its int64 / uint64 (64 bits) is             *)
(* WordBits = 2 * HalfBits bits wide, so that every width-dependent        *)
(* relation of the code (half block capped at the uint32 width, shift      *)
(* counts reduced modulo the uint64 width, int64 wrap-around) is kept.     *)
(* The cycle-walking cap walk_max (1000000 in the code) is scaled too.     *)
(* Signed arithmetic wraps (PostgreSQL and its extensions are compiled     *)
(* with -fwrapv).  The shift 1 << hsz with hsz equal to the width of int   *)
(* is undefined; both results that builds produce are modelled.            *)
(***************************************************************************)
EXTENDS Integers, FiniteSets, Sequences, TLC

\* width of uint32 and of int (32 in the code)
HalfBits == 3
\* width of int64 and uint64 (64 in the code)
WordBits == 2 * HalfBits
\* cap on the number of walks (1000000 in the code)
walk_max == 3
\* number of rounds of the Feistel network
NR == 9
\* largest number of advances of the sequence followed
MaxCalls == 1

PG_INT64_MIN == -(2^(WordBits - 1))
PG_INT64_MAX == 2^(WordBits - 1) - 1
Int64 == PG_INT64_MIN..PG_INT64_MAX

\* conversion to uint64, to uint32 and to int64 (two's complement)
U64(x) == x % (2^WordBits)
U32(x) == x % (2^HalfBits)
I64(x) == IF U64(x) > PG_INT64_MAX THEN U64(x) - 2^WordBits ELSE U64(x)

RECURSIVE BitXor(_, _)
BitXor(a, b) ==
  IF a = 0 THEN b
  ELSE IF b = 0 THEN a
  ELSE (((a % 2) + (b % 2)) % 2) + 2 * BitXor(a \div 2, b \div 2)

RECURSIVE BitAnd(_, _)
BitAnd(a, b) ==
  IF a = 0 \/ b = 0 THEN 0
  ELSE ((a % 2) * (b % 2)) + 2 * BitAnd(a \div 2, b \div 2)

RECURSIVE BitOr(_, _)
BitOr(a, b) ==
  IF a = 0 THEN b
  ELSE IF b = 0 THEN a
  ELSE (IF (a % 2) + (b % 2) > 0 THEN 1 ELSE 0) + 2 * BitOr(a \div 2, b \div 2)

VARIABLES
  minval,      \* lower bound of the range: of the sequence, or the argument
  maxval,      \* upper bound of the range
  hash_seed,   \* which mixing function hash_uint32 is
  shl_wraps,   \* result of the undefined 1 << hsz: TRUE 1 (count wraps), FALSE 0
  seq_calls,   \* number of times nextval_oid has advanced the sequence
  pc,          \* "idle": no call in progress; "done": call holds a finished call
  call         \* the finished call: arguments, outcome, and what it did

vars == <<minval, maxval, hash_seed, shl_wraps, seq_calls, pc, call>>

\* The mixing primitive: a fixed deterministic function of uint32 to uint32.
hash_uint32(k) ==
  U32(k * (k + hash_seed) + 3 * hash_seed + (k \div 2))

\* Returns true if at least 4 elements fit in the sequence.
check_sequence_range(minv, maxv) ==
  IF (minv > 0 /\ maxv < PG_INT64_MIN + minv)
     \/ (minv < 0 /\ maxv > PG_INT64_MAX + minv)
  THEN TRUE
  ELSE I64(maxv - minv) >= 4 - 1

\* Whether check_sequence_range evaluates a subtraction that overflows int64.
check_sequence_range_overflows(minv, maxv) ==
  /\ ~((minv > 0 /\ maxv < PG_INT64_MIN + minv)
       \/ (minv < 0 /\ maxv > PG_INT64_MAX + minv))
  /\ maxv - minv \notin Int64

\* The test of reverse_permute: the sequence is too short to decrypt.
reverse_permute_too_short(minv, maxv) == I64(maxv - minv) < 4

\* Whether the test of reverse_permute evaluates an overflowing subtraction.
reverse_permute_overflows(minv, maxv) == maxv - minv \notin Int64

\* hsz = 1; while (hsz < 32 && ((uint64)1 << (2*hsz)) < interval) hsz++;
RECURSIVE half_block_loop(_, _)
half_block_loop(hsz, interval) ==
  IF hsz < HalfBits /\ 2^(2 * hsz) < interval
  THEN half_block_loop(hsz + 1, interval)
  ELSE hsz

half_block_size(interval) == half_block_loop(1, interval)

\* mask = (1 << hsz) - 1, the shift being done in int
half_block_mask(hsz) ==
  IF hsz < HalfBits THEN U32(2^hsz - 1)
  ELSE IF shl_wraps THEN U32(1 - 1) ELSE U32(0 - 1)

\* crypt_key = hash_uint32(low half) | (uint64) hash_uint32(high half) << 32
scramble_key(crypt_key) ==
  BitOr(hash_uint32(BitAnd(crypt_key, 2^HalfBits - 1)),
        U64(hash_uint32(BitAnd(crypt_key \div 2^HalfBits, 2^HalfBits - 1))
            * 2^HalfBits))

\* index of the subkey of round i
subkey_index(direction, i) == IF direction = 0 THEN i ELSE NR - 1 - i

\* Ki = crypt_key >> ((hsz * index) & 0x3f); Ki += index;
round_subkey(crypt_key, hsz, direction, i) ==
  U32(U32(crypt_key \div 2^((hsz * subkey_index(direction, i)) % WordBits))
      + subkey_index(direction, i))

\* r2 = (l1 ^ hash(r1) ^ hash(Ki)) & mask
round_r2_unkeyed(l1, r1, Ki, mask) ==
  BitAnd(BitXor(hash_uint32(r1), hash_uint32(Ki)), mask)

round_r2(l1, r1, Ki, mask) ==
  BitAnd(BitXor(BitXor(l1, hash_uint32(r1)), hash_uint32(Ki)), mask)

\* The rounds i..NR-1 of the Feistel network on the half blocks l1, r1;
\* yields the four locals l1, r1, l2, r2 as the for loop leaves them.
RECURSIVE feistel(_, _, _, _, _, _, _, _, _)
feistel(l1, r1, l2, r2, i, hsz, mask, crypt_key, direction) ==
  IF i < NR
  THEN LET Ki == round_subkey(crypt_key, hsz, direction, i)
           new_l2 == r1
           new_r2 == round_r2(l1, r1, Ki, mask)
       IN feistel(new_l2, new_r2, new_l2, new_r2,
                  i + 1, hsz, mask, crypt_key, direction)
  ELSE [l1 |-> l1, r1 |-> r1, l2 |-> l2, r2 |-> r2]

\* result = ((uint64) r1 << hsz) | l1
reassemble(l1, r1, hsz) == BitOr(U64(r1 * 2^hsz), l1)

\* the condition of the do ... while, before its walk_count++
walk_again(result, maxmin, walk_count) ==
  result > maxmin /\ walk_count < walk_max

\* if (walk_count >= walk_max) ereport(ERROR, ...)
walk_limit_reached_strict(walk_count) == walk_count > walk_max

walk_limit_reached(walk_count) == walk_count >= walk_max

\* The do ... while loop.  maxmin is (uint64)(maxval - minval); applications
\* counts the runs of the Feistel network so far.
RECURSIVE cycle_walk(_, _, _, _, _, _, _, _, _)
cycle_walk(l1, r1, walk_count, applications, hsz, mask, crypt_key, direction, maxmin) ==
  LET f == feistel(l1, r1, 0, 0, 0, hsz, mask, crypt_key, direction)
      result == reassemble(f.l1, f.r1, hsz)
  IN IF walk_again(result, maxmin, walk_count)
     THEN cycle_walk(f.r2, f.l2, walk_count + 1, applications + 1,
                     hsz, mask, crypt_key, direction, maxmin)
     ELSE [result |-> result,
           walk_count |-> IF result > maxmin THEN walk_count + 1 ELSE walk_count,
           applications |-> applications + 1]

\* cycle_walking_cipher: the locals it computes, whether it raised the
\* "infinite cycle walking prevented" error, and the value it returns.
cycle_walking_cipher(minv, maxv, value, crypt_key, direction) ==
  LET interval == U64(I64(I64(maxv - minv) + 1))
      hsz == half_block_size(interval)
      mask == half_block_mask(hsz)
      key == scramble_key(crypt_key)
      l1 == U32(I64(value - minv) \div 2^hsz)
      r1 == U32(BitAnd(U64(value - minv), mask))
      w == cycle_walk(l1, r1, 0, 0, hsz, mask, key, direction,
                      U64(I64(maxv - minv)))
  IN [interval |-> interval, hsz |-> hsz, mask |-> mask,
      offset |-> U64(value - minv),
      walk_count |-> w.walk_count, applications |-> w.applications,
      error |-> walk_limit_reached(w.walk_count),
      ret |-> I64(minv + w.result)]

\* What a call that never reached cycle_walking_cipher leaves of its locals.
NoCipher ==
  [interval |-> 0, hsz |-> 0, mask |-> 0, offset |-> 0, walk_count |-> 0,
   applications |-> 0, error |-> FALSE, ret |-> 0]

\* A call ended by ereport(ERROR, ...) before cycle_walking_cipher was called.
\* advanced: nextval_oid was called; overflow: the range test overflowed.
Raised(kind, advanced, overflow) ==
  [status |-> kind, result |-> 0, cipher_called |-> FALSE, cipher |-> NoCipher,
   advanced |-> advanced, overflow |-> overflow]

\* A call that went through cycle_walking_cipher, whose outcome is c.
Ciphered(c, advanced, overflow) ==
  [status |-> IF c.error THEN "CycleLimitExceeded" ELSE "ok",
   result |-> IF c.error THEN 0 ELSE c.ret,
   cipher_called |-> TRUE, cipher |-> c,
   advanced |-> advanced, overflow |-> overflow]

\* if (value < minval || value > maxval) ereport(ERROR, ...)
outside_interval_strict(value, minv, maxv) == value <= minv \/ value >= maxv

outside_interval(value, minv, maxv) == value < minv \/ value > maxv

\* permute_nextval with the call of nextval_oid moved before the range test
permute_nextval_fetch_first(minv, maxv, nextval, crypt_key) ==
  IF ~check_sequence_range(minv, maxv)
  THEN Raised("RangeTooSmall", TRUE, check_sequence_range_overflows(minv, maxv))
  ELSE IF outside_interval(nextval, minv, maxv)
  THEN Raised("ValueOutOfRange", TRUE, check_sequence_range_overflows(minv, maxv))
  ELSE Ciphered(cycle_walking_cipher(minv, maxv, nextval, crypt_key, 0),
                TRUE, check_sequence_range_overflows(minv, maxv))

\* permute_nextval on a sequence of bounds minv, maxv whose nextval_oid
\* returns nextval
permute_nextval_call(minv, maxv, nextval, crypt_key) ==
  IF ~check_sequence_range(minv, maxv)
  THEN Raised("RangeTooSmall", FALSE, check_sequence_range_overflows(minv, maxv))
  ELSE IF outside_interval(nextval, minv, maxv)
  THEN Raised("ValueOutOfRange", TRUE, check_sequence_range_overflows(minv, maxv))
  ELSE Ciphered(cycle_walking_cipher(minv, maxv, nextval, crypt_key, 0),
                TRUE, check_sequence_range_overflows(minv, maxv))

\* reverse_permute on a sequence of bounds minv, maxv
reverse_permute_call(minv, maxv, value, crypt_key) ==
  IF reverse_permute_too_short(minv, maxv)
  THEN Raised("RangeTooSmall", FALSE, reverse_permute_overflows(minv, maxv))
  ELSE IF outside_interval(value, minv, maxv)
  THEN Raised("ValueOutOfRange", FALSE, reverse_permute_overflows(minv, maxv))
  ELSE Ciphered(cycle_walking_cipher(minv, maxv, value, crypt_key, 1),
                FALSE, reverse_permute_overflows(minv, maxv))

range_encrypt_element_call(clearval, minv, maxv, crypt_key) ==
  IF outside_interval(clearval, minv, maxv)
  THEN Raised("ValueOutOfRange", FALSE, FALSE)
  ELSE Ciphered(cycle_walking_cipher(minv, maxv, clearval, crypt_key, 0),
                FALSE, FALSE)

range_decrypt_element_call(val, minv, maxv, crypt_key) ==
  IF outside_interval(val, minv, maxv)
  THEN Raised("ValueOutOfRange", FALSE, FALSE)
  ELSE Ciphered(cycle_walking_cipher(minv, maxv, val, crypt_key, 1),
                FALSE, FALSE)

----------------------------------------------------------------------------
\* The inputs tried.

MinSamples == {PG_INT64_MIN, -2, 1}

\* maxval - minval
DiffSamples ==
  {0, 1, 2, 3, 4, 5, 8, 11, 12, 13, 20,
   2^(WordBits - 2) - 1, 2^(WordBits - 2),
   2^(WordBits - 1) - 2, 2^(WordBits - 1) - 1, 2^(WordBits - 1),
   2^WordBits - 2, 2^WordBits - 1}

Ranges ==
  {rg \in {<<a, a + d>> : a \in MinSamples, d \in DiffSamples} : rg[2] \in Int64}
  \cup {<<1, 0>>, <<PG_INT64_MAX - 4, PG_INT64_MIN>>}

Keys == {0, 2^HalfBits + 2, 2^WordBits - 1}

\* the mixing functions tried for hash_uint32
Seeds == {0, 1}

\* The values tried in a range: those next to its two ends, inside and
\* outside, and the middle one.
NearEnds(v) ==
  \/ v - minval \in -1..9
  \/ maxval - v \in -1..2
  \/ v - minval = (maxval - minval) \div 2

Values ==
  {v \in Int64 : NearEnds(v)} \cup {minval, maxval}

EncryptOps == {"permute_nextval", "range_encrypt_element"}

\* The results of 1 << hsz that differ in the range: the shift is undefined
\* only where hsz reaches the width of int.
ShiftOutcomes ==
  IF half_block_size(U64(I64(I64(maxval - minval) + 1))) = HalfBits
  THEN BOOLEAN
  ELSE {FALSE}

NoCall == [op |-> "none"]

\* A decryption may be asked for at any time with any arguments, or right
\* after an encryption with that encryption's result and key.
Fed(value, crypt_key) ==
  /\ pc = "done"
  /\ call.op \in EncryptOps
  /\ call.out.status = "ok"
  /\ value = call.out.result
  /\ crypt_key = call.key

Finished(op, value, crypt_key, out) ==
  [op |-> op, value |-> value, key |-> crypt_key, out |-> out,
   seq_before |-> seq_calls,
   fed |-> pc = "done",
   clear |-> IF pc = "done" THEN call.value ELSE 0]

----------------------------------------------------------------------------
Init ==
  /\ \E rg \in Ranges : minval = rg[1] /\ maxval = rg[2]
  /\ hash_seed \in Seeds
  /\ shl_wraps \in ShiftOutcomes
  /\ seq_calls = 0
  /\ pc = "idle"
  /\ call = NoCall

\* The result of the encryption just finished, if any.
Results ==
  IF pc = "done" /\ call.op \in EncryptOps /\ call.out.status = "ok"
  THEN {call.out.result}
  ELSE {}

\* SELECT permute_nextval(seq, crypt_key), on a sequence (MINVALUE < MAXVALUE)
\* whose nextval_oid returns nextval.
permute_nextval ==
  \E crypt_key \in Keys, nextval \in Values :
    /\ pc = "idle"
    /\ minval < maxval
    /\ seq_calls < MaxCalls
    /\ call' = Finished("permute_nextval", nextval, crypt_key,
                        permute_nextval_call(minval, maxval, nextval, crypt_key))
    /\ seq_calls' = IF call'.out.advanced THEN seq_calls + 1 ELSE seq_calls
    /\ pc' = "done"
    /\ UNCHANGED <<minval, maxval, hash_seed, shl_wraps>>

\* SELECT reverse_permute(seq, value, crypt_key)
reverse_permute ==
  \E crypt_key \in Keys, value \in Values \cup Results :
    /\ pc = "idle" \/ Fed(value, crypt_key)
    /\ minval < maxval
    /\ call' = Finished("reverse_permute", value, crypt_key,
                        reverse_permute_call(minval, maxval, value, crypt_key))
    /\ pc' = "done"
    /\ UNCHANGED <<minval, maxval, hash_seed, shl_wraps, seq_calls>>

\* SELECT range_encrypt_element(clearval, minval, maxval, crypt_key)
range_encrypt_element ==
  \E crypt_key \in Keys, clearval \in Values :
    /\ pc = "idle"
    /\ call' = Finished("range_encrypt_element", clearval, crypt_key,
                        range_encrypt_element_call(clearval, minval, maxval,
                                                   crypt_key))
    /\ pc' = "done"
    /\ UNCHANGED <<minval, maxval, hash_seed, shl_wraps, seq_calls>>

\* SELECT range_decrypt_element(val, minval, maxval, crypt_key)
range_decrypt_element ==
  \E crypt_key \in Keys, val \in Values \cup Results :
    /\ pc = "idle" \/ Fed(val, crypt_key)
    /\ call' = Finished("range_decrypt_element", val, crypt_key,
                        range_decrypt_element_call(val, minval, maxval, crypt_key))
    /\ pc' = "done"
    /\ UNCHANGED <<minval, maxval, hash_seed, shl_wraps, seq_calls>>

\* The call returns to its caller.
Return ==
  /\ pc = "done"
  /\ pc' = "idle"
  /\ call' = NoCall
  /\ UNCHANGED <<minval, maxval, hash_seed, shl_wraps, seq_calls>>

Next ==
  \/ permute_nextval
  \/ reverse_permute
  \/ range_encrypt_element
  \/ range_decrypt_element
  \/ Return

Spec == Init /\ [][Next]_vars

----------------------------------------------------------------------------
\* Vocabulary of the properties.

Done == pc = "done"
DecryptOps == {"reverse_permute", "range_decrypt_element"}
SequenceOps == {"permute_nextval", "reverse_permute"}

\* number of elements of [minval, maxval]
IntervalSize == maxval - minval + 1
ValidRange == minval <= maxval /\ IntervalSize >= 4
InRange(v) == minval <= v /\ v <= maxval

\* direction argument of cycle_walking_cipher in the finished call
Direction == IF call.op \in EncryptOps THEN 0 ELSE 1

\* One run of the Feistel network of the finished call on the offset x,
\* split into half blocks and reassembled.
FeistelCore(x) ==
  LET c == call.out.cipher
      f == feistel(U32(x \div 2^c.hsz), BitAnd(x, c.mask), 0, 0, 0,
                   c.hsz, c.mask, scramble_key(call.key), Direction)
  IN reassemble(f.l1, f.r1, c.hsz)

\* The first offset < IntervalSize among the runs n, n+1, ..., last of the
\* Feistel network fed with its own output, x being the output of run n-1.
RECURSIVE FirstInRange(_, _, _)
FirstInRange(x, n, last) ==
  IF n > last THEN [found |-> FALSE, offset |-> 0, n |-> n]
  ELSE LET y == FeistelCore(x)
       IN IF y < IntervalSize
          THEN [found |-> TRUE, offset |-> y, n |-> n]
          ELSE FirstInRange(y, n + 1, last)

\* the half-block width of the data model: smallest h in 1..HalfBits with
\* 2^(2h) >= IntervalSize
MinimalHalfBlock ==
  CHOOSE h \in 1..HalfBits :
    /\ 2^(2 * h) >= IntervalSize
    /\ \A g \in 1..(h - 1) : 2^(2 * g) < IntervalSize

----------------------------------------------------------------------------
\* C1. Round trip: in a valid range, decrypting the result of an encryption
\* with the same range and key succeeds and returns the encrypted value.
RoundTrip ==
  (Done /\ call.fed /\ call.op \in DecryptOps /\ ValidRange
        /\ call.out.cipher_called)
    => (call.out.status = "ok" /\ call.out.result = call.clear)

\* C2. Bijection: in a valid range, up to the full range, an encryption
\* returns a value of the range that no other value of the range encrypts to
\* under the same key.
Bijection ==
  (Done /\ call.op \in EncryptOps /\ ValidRange /\ call.out.status = "ok")
    => /\ InRange(call.out.result)
       /\ \A v \in minval..maxval :
            v # call.value =>
              LET other == cycle_walking_cipher(minval, maxval, v, call.key, 0)
              IN other.error \/ other.ret # call.out.result

\* C3. Every operation fails with RangeTooSmall, before any cipher work, when
\* the range has fewer than 4 elements.
TooSmallRejected ==
  (Done /\ minval <= maxval /\ maxval - minval < 3)
    => (call.out.status = "RangeTooSmall" /\ ~call.out.cipher_called)

\* C4. A range of exactly 4 elements is not rejected with RangeTooSmall, by
\* any operation.
FourAccepted ==
  (Done /\ maxval - minval = 3) => call.out.status # "RangeTooSmall"

\* C5. When maxval - minval does not fit in int64, the range test of
\* permute_nextval and of reverse_permute evaluates no overflowing
\* subtraction and finds the range large enough.
WideRangeValid ==
  (Done /\ call.op \in SequenceOps /\ minval <= maxval
        /\ maxval - minval > PG_INT64_MAX)
    => (~call.out.overflow /\ call.out.status # "RangeTooSmall")

\* C6, as claimed. Every operation fails with ValueOutOfRange, before the
\* cipher is called, when its value is outside [minval, maxval], whatever
\* the range; a value equal to minval or maxval is not rejected.
ValueCheckedAlways ==
  Done =>
    /\ outside_interval(call.value, minval, maxval)
         => (call.out.status = "ValueOutOfRange" /\ ~call.out.cipher_called)
    /\ (minval <= maxval /\ call.value \in {minval, maxval})
         => call.out.status # "ValueOutOfRange"

\* C6, amended. Every operation that has not rejected the range with
\* RangeTooSmall fails with ValueOutOfRange, before the cipher is called,
\* when its value is outside [minval, maxval]; a value equal to minval or
\* maxval is not rejected with ValueOutOfRange.
ValueCheckedAfterRange ==
  Done =>
    /\ (outside_interval(call.value, minval, maxval)
        /\ call.out.status # "RangeTooSmall")
         => (call.out.status = "ValueOutOfRange" /\ ~call.out.cipher_called)
    /\ (minval <= maxval /\ call.value \in {minval, maxval})
         => call.out.status # "ValueOutOfRange"

\* a value just above maxval has been rejected, and so has been a value
\* equal to maxval accepted, by a call that passed the range test
ValueCheckedWitness ==
  /\ Done
  /\ call.op = "reverse_permute"
  /\ call.value = maxval + 1
  /\ call.out.status = "ValueOutOfRange"

\* C7, as claimed. permute_nextval failing with any error leaves the
\* sequence as it was before the call.
NoAdvanceOnError ==
  (Done /\ call.op = "permute_nextval" /\ call.out.status # "ok")
    => seq_calls = call.seq_before

\* C7, amended. permute_nextval failing with RangeTooSmall leaves the
\* sequence as it was; failing with ValueOutOfRange or CycleLimitExceeded
\* it has advanced the sequence once, and the advance stays.
AdvanceOnlyAfterRangeCheck ==
  (Done /\ call.op = "permute_nextval")
    => /\ call.out.status = "RangeTooSmall" => seq_calls = call.seq_before
       /\ call.out.status \in {"ValueOutOfRange", "CycleLimitExceeded"}
            => seq_calls = call.seq_before + 1

\* permute_nextval has failed in the cipher, the sequence advanced
AdvanceWitness ==
  /\ Done
  /\ call.op = "permute_nextval"
  /\ call.out.status = "CycleLimitExceeded"
  /\ seq_calls = call.seq_before + 1

\* C8. In a valid range, up to the full range, hsz is the smallest integer
\* of 1..HalfBits with 2^(2*hsz) >= IntervalSize.
HalfBlockMinimal ==
  (Done /\ call.out.cipher_called /\ ValidRange)
    => /\ call.out.cipher.hsz \in 1..HalfBits
       /\ 2^(2 * call.out.cipher.hsz) >= IntervalSize
       /\ \A g \in 1..(call.out.cipher.hsz - 1) : 2^(2 * g) < IntervalSize

\* C9. The cipher returns minval plus the first offset < IntervalSize that
\* the Feistel network, fed with its own output, produces, when one of its
\* first walk_max runs produces it; otherwise it fails with
\* CycleLimitExceeded and returns nothing.
WalkOutcome ==
  (Done /\ call.out.cipher_called)
    => LET hit == FirstInRange(call.out.cipher.offset, 1, walk_max)
       IN IF hit.found
          THEN /\ call.out.status = "ok"
               /\ call.out.result = I64(minval + hit.offset)
               /\ call.out.cipher.applications = hit.n
          ELSE call.out.status = "CycleLimitExceeded" /\ call.out.result = 0

\* the value returned comes from the last run the cap allows
WalkOutcomeWitness ==
  /\ Done
  /\ call.out.cipher_called
  /\ ValidRange
  /\ call.out.status = "ok"
  /\ call.out.cipher.applications = walk_max

\* the bound of C10 on the number of runs of the Feistel network, from the
\* locals of the code and from the data model
WalkBound ==
  2^(2 * call.out.cipher.hsz) - call.out.cipher.interval + 1
WalkBoundOfModel == 2^(2 * MinimalHalfBlock) - IntervalSize + 1

\* C10. The walk ends on an offset of the range after at most
\* 2^(2*hsz) - interval + 1 runs of the Feistel network (the cap may stop
\* it earlier), and CycleLimitExceeded is not raised when that bound is at
\* most walk_max.
WalkTerminates ==
  (Done /\ call.out.cipher_called)
    => /\ call.out.cipher.applications <= WalkBound
       /\ call.out.cipher.applications <= WalkBoundOfModel
       /\ call.out.status = "ok" => InRange(call.out.result)
       /\ WalkBound <= walk_max => call.out.status = "ok"
       /\ call.out.status = "CycleLimitExceeded"
            => FirstInRange(call.out.cipher.offset, 1, WalkBound).found

\* a walk of more than one run, in a range whose bound is within the cap
WalkTerminatesWitness ==
  /\ Done
  /\ call.out.cipher_called
  /\ ValidRange
  /\ WalkBound <= walk_max
  /\ call.out.cipher.applications > 1
  /\ call.out.status = "ok"

----------------------------------------------------------------------------
\* What holds of the permutation in the calls whose locals are the intended
\* ones: interval has not wrapped to 0 and mask is 2^hsz - 1.

IntendedLocals ==
  /\ call.out.cipher.interval = IntervalSize
  /\ call.out.cipher.mask = 2^call.out.cipher.hsz - 1

\* In those calls decryption undoes encryption.
RoundTripWithIntendedLocals ==
  (Done /\ call.fed /\ call.op \in DecryptOps /\ call.out.cipher_called
        /\ IntendedLocals)
    => (call.out.status = "ok" /\ call.out.result = call.clear)

\* In those calls encryption is injective and stays in the range.
BijectionWithIntendedLocals ==
  (Done /\ call.op \in EncryptOps /\ call.out.status = "ok" /\ IntendedLocals)
    => /\ InRange(call.out.result)
       /\ \A v \in minval..maxval :
            v # call.value =>
              LET other == cycle_walking_cipher(minval, maxval, v, call.key, 0)
              IN other.error \/ other.ret # call.out.result

\* permute_nextval and reverse_permute do reject the ranges of fewer than 4
\* elements, before any cipher work.
TooSmallRejectedBySequenceOps ==
  (Done /\ call.op \in SequenceOps /\ maxval - minval < 3)
    => (call.out.status = "RangeTooSmall" /\ ~call.out.cipher_called)

\* The range test of permute_nextval is safe from overflow.
WideRangeValidForEncrypt ==
  (Done /\ call.op = "permute_nextval" /\ maxval - minval > PG_INT64_MAX)
    => (~call.out.overflow /\ call.out.status # "RangeTooSmall")

\* In those calls hsz is the half-block width of the data model.
HalfBlockWithIntendedLocals ==
  (Done /\ call.out.cipher_called /\ call.out.cipher.interval = IntervalSize)
    => call.out.cipher.hsz = MinimalHalfBlock

====
